---- MODULE Spec2Model ----
(***************************************************************************)
(* Model of riana's integrate_peaks.py (class Peaks): the isotopologue     *)
(* tracer get_isotopes_from_amrt, the trace integrator                     *)
(* integrate_isotope_intensity, the per-row wrapper and the process-pool   *)
(* batch driver get_isotopes_from_amrt_multiwrapper.                       *)
(*                                                                         *)
(* Numbers.  TLC has integers only.  Retention times and intensities are   *)
(* integers.  Areas are counted in halves (the value 3 is the area 1.5),   *)
(* so that the trapezoidal sum of integer samples is exact.  Masses are    *)
(* counted in half micro-daltons (1 Da = 2000000 units), so that           *)
(* proton = 1.007825 Da and proton / 2 are both integers.  mass_tolerance  *)
(* is counted in ppm (100e-6 = 100).  The masses and charges drawn are     *)
(* those on which every division of the code is exact; floating-point      *)
(* rounding is not modelled.                                               *)
(***************************************************************************)
EXTENDS Integers, Sequences, FiniteSets

VARIABLES
    msdata,               \* self.msdata: scan id -> sequence of <<mz, I>>
    rt_idx,               \* self.rt_idx: scan id -> retention time
    rt_idx_keys,          \* the keys of self.rt_idx in the order they were inserted
    mslvl_idx,            \* self.mslvl_idx: scan id -> MS level
    id,                   \* self.id: the identification table, rows 0..n-1 kept at 1..n
    iso_to_do,            \* self.iso_to_do
    rt_tolerance,         \* self.rt_tolerance
    mass_tolerance,       \* self.mass_tolerance, in ppm
    intensity_over_time,  \* self.intensity_over_time of the caller's instance
    pc,                   \* where the caller is: "ready", in a batch ("collecting",
                          \* "raising"), or back from a batch ("done") or from a
                          \* direct call of the wrapper ("row_done")
    args,                 \* the arguments of the call in progress
    ret,                  \* what the call returned or raised
    cpu_count,            \* multiprocessing.cpu_count() on this machine
    taskqueue,            \* the pool's chunks not yet taken by a worker
    outqueue,             \* chunks the workers finished, not yet seen by the parent
    worker,               \* the pool's worker processes
    it_index,             \* IMapIterator._index: the next chunk to hand out
    it_items,             \* IMapIterator._items: chunks ready, in chunk order
    it_unsorted,          \* IMapIterator._unsorted: chunks that arrived early
    result                \* the list line 93 is building

peaks_vars == <<msdata, rt_idx, rt_idx_keys, mslvl_idx, id, iso_to_do, rt_tolerance, mass_tolerance,
                intensity_over_time>>

pool_vars == <<cpu_count, taskqueue, outqueue, worker, it_index, it_items, it_unsorted, result>>

vars == <<peaks_vars, pc, args, ret, pool_vars>>

(***************************************************************************)
(* Bounds of the model                                                     *)
(***************************************************************************)
MaxTraceLen == 3
MaxScan == 2
MaxRows == 2
MaxExtraRows == 2
MaxCpu == 3
MaxWorkers == 2

(***************************************************************************)
(* Program constants                                                       *)
(***************************************************************************)
proton == 2015650                \* proton = 1.007825, in half micro-daltons
DefaultRtTolerance == 30         \* self.rt_tolerance = 30
DefaultMassTolerance == 100      \* self.mass_tolerance = 100e-6, in ppm
ChunkFloor == 250                \* chunk_size = max(chunk_size, 250)

DaUnits(da) == da * 2000000

abs(x) == IF x < 0 THEN 0 - x ELSE x

max(a, b) == IF b > a THEN b ELSE a

(***************************************************************************)
(* integrate_isotope_intensity                                             *)
(***************************************************************************)

\* Line 184 with the comparison of a neighbouring offset let through.
isotopomer_profile_AtLeast(iot, j) ==
    LET sel == SelectSeq(iot, LAMBDA s : s[2] >= j)
    IN  [k \in 1..Len(sel) |-> <<sel[k][1], sel[k][3]>>]

\* [[rt, I] for rt, iso, I, mz_value in self.intensity_over_time if iso == j]
isotopomer_profile(iot, j) ==
    LET sel == SelectSeq(iot, LAMBDA s : s[2] = j)
    IN  [k \in 1..Len(sel) |-> <<sel[k][1], sel[k][3]>>]

\* scipy.integrate.trapz(y, x) = sum(diff(x) * (y[1:] + y[:-1]) / 2), terms k..Len-1.
\* The result is counted in halves: each term is diff(x) * (y[k+1] + y[k]).
RECURSIVE trapz_from(_, _, _)
trapz_from(y, x, k) ==
    IF k >= Len(x) THEN 0
    ELSE (x[k + 1] - x[k]) * (y[k + 1] + y[k]) + trapz_from(y, x, k + 1)

trapz(y, x) == trapz_from(y, x, 1)

\* Lines 187-194 without the floor of line 191.
iso_area_NoFloor(profile) ==
    IF profile # <<>>
    THEN trapz([k \in 1..Len(profile) |-> profile[k][2]],
               [k \in 1..Len(profile) |-> profile[k][1]])
    ELSE 0

\* Lines 187-194: the area of one isotopomer profile (in halves), 0 when there
\* is none.
iso_area(profile) ==
    IF profile # <<>>
    THEN max(trapz([k \in 1..Len(profile) |-> profile[k][2]],
                   [k \in 1..Len(profile) |-> profile[k][1]]), 0)
    ELSE 0

\* The loop of lines 182-196 over the offsets still to do.
RECURSIVE integrate_loop(_, _, _)
integrate_loop(iot, isos, iso_intensity) ==
    IF isos = <<>> THEN iso_intensity
    ELSE integrate_loop(iot, Tail(isos),
             Append(iso_intensity, iso_area(isotopomer_profile(iot, Head(isos)))))

integrate_isotope_intensity(iot, isos) == integrate_loop(iot, isos, <<>>)

(***************************************************************************)
(* get_isotopes_from_amrt                                                  *)
(***************************************************************************)

\* What a call did: it returned `value` at line 171, or raised `exc` at `line`.
\* nearby_scans and matching_int are the locals of lines 150 and 167 as they
\* stood when the call ended.
Returned(v, nearby) ==
    [kind |-> "return", value |-> v, exc |-> "none", line |-> 171,
     nearby_scans |-> nearby, matching_int |-> 0]

Raised(e, ln, nearby, m_int) ==
    [kind |-> "raise", value |-> <<>>, exc |-> e, line |-> ln,
     nearby_scans |-> nearby, matching_int |-> m_int]

NoCall ==
    [kind |-> "none", value |-> <<>>, exc |-> "none", line |-> 0,
     nearby_scans |-> <<>>, matching_int |-> 0]

\* self.rt_idx.items(): the (key, value) pairs in the order of insertion.
rt_idx_items == [k \in 1..Len(rt_idx_keys) |-> <<rt_idx_keys[k], rt_idx[rt_idx_keys[k]]>>]

\* Line 151 with the window's boundary left out.
in_rt_window_Strict(rt, peptide_rt) == abs(rt - peptide_rt) < rt_tolerance

\* abs(rt - peptide_rt) <= self.rt_tolerance
in_rt_window(rt, peptide_rt) == abs(rt - peptide_rt) <= rt_tolerance

\* Lines 150-151: [[i, rt] for i, rt in self.rt_idx.items() if ... and ...]
nearby_scans(peptide_rt) ==
    SelectSeq(rt_idx_items, LAMBDA it : in_rt_window(it[2], peptide_rt)
                                          /\ mslvl_idx[it[1]] = 1)

\* Lines 163-167, upper > mz_value > lower, with upper/lower = am +- am*(tol/2).
\* tol/2 = 1/h for h = 2000000 / ppm, and for integers d < am/h iff d <= (am-1) \div h.
in_mass_band(mz_value, am) ==
    LET h == 2000000 \div mass_tolerance
    IN  /\ mz_value - am <= (am - 1) \div h
        /\ am - mz_value <= (am - 1) \div h

\* Line 167: sum([I for mz_value, I in peaks if upper > mz_value > lower])
RECURSIVE matching_int(_, _)
matching_int(peaks, am) ==
    IF peaks = <<>> THEN 0
    ELSE (IF in_mass_band(Head(peaks)[1], am) THEN Head(peaks)[2] ELSE 0)
         + matching_int(Tail(peaks), am)

\* Lines 139-171.  The first pass through the body of the loops of lines 154-169
\* ends the call: line 169 reads peptide_prec_isotopomer_am, a name bound nowhere.
get_isotopes_from_amrt(peptide_am, peptide_scan, z) ==
    IF z = 0 THEN Raised("ZeroDivisionError", 145, <<>>, 0)
    ELSE IF peptide_scan \notin DOMAIN rt_idx /\ DOMAIN rt_idx # {}
    THEN Raised("TypeError", 151, <<>>, 0)
    ELSE IF \E i \in DOMAIN rt_idx :
                /\ in_rt_window(rt_idx[i], rt_idx[peptide_scan])
                /\ i \notin DOMAIN mslvl_idx
    THEN Raised("KeyError", 151, <<>>, 0)
    ELSE
    LET peptide_rt   == IF peptide_scan \in DOMAIN rt_idx THEN rt_idx[peptide_scan] ELSE 0
        peptide_prec == (peptide_am + (z * proton)) \div z
        nearby       == nearby_scans(peptide_rt)
    IN  IF nearby = <<>> \/ iso_to_do = <<>> THEN Returned(<<>>, nearby)
        ELSE LET nearbyScan_id       == nearby[1][1]
                 iso                 == iso_to_do[1]
                 peptide_prec_iso_am == peptide_prec + ((iso * proton) \div z)
             IN  IF nearbyScan_id \notin DOMAIN msdata
                 THEN Raised("TypeError", 167, nearby, 0)
                 ELSE Raised("NameError", 169, nearby,
                             matching_int(msdata[nearbyScan_id], peptide_prec_iso_am))

(***************************************************************************)
(* The setters, lines 35-71                                                *)
(***************************************************************************)

\* A caller is between two calls: none is running, and a call it makes next
\* starts afresh; no pool outlives the call that made it.
BetweenCalls == pc \in {"ready", "done", "row_done"}

NoPool ==
    /\ taskqueue = <<>> /\ outqueue = <<>>
    /\ worker = <<>>
    /\ it_index = 0 /\ it_items = <<>> /\ it_unsorted = {}
    /\ result = <<>>

\* The caller lets go of what the last call gave it.
DropLastCall ==
    /\ pc' = "ready" /\ args' = <<>> /\ ret' = NoCall
    /\ taskqueue' = <<>> /\ outqueue' = <<>>
    /\ worker' = <<>>
    /\ it_index' = 0 /\ it_items' = <<>> /\ it_unsorted' = {}
    /\ result' = <<>>
    /\ UNCHANGED cpu_count

\* Line 42: self.iso_to_do = iso_to_do
set_iso_to_do(v) ==
    /\ BetweenCalls
    /\ iso_to_do' = v
    /\ DropLastCall
    /\ UNCHANGED <<msdata, rt_idx, rt_idx_keys, mslvl_idx, id, rt_tolerance,
                   mass_tolerance, intensity_over_time>>

\* Line 52: self.rt_tolerance = rt_tolerance
set_rt_tolerance(v) ==
    /\ BetweenCalls
    /\ rt_tolerance' = v
    /\ DropLastCall
    /\ UNCHANGED <<msdata, rt_idx, rt_idx_keys, mslvl_idx, id, iso_to_do,
                   mass_tolerance, intensity_over_time>>

\* Line 61: self.mass_tolerance = mass_tolerance
set_mass_tolerance(v) ==
    /\ BetweenCalls
    /\ mass_tolerance' = v
    /\ DropLastCall
    /\ UNCHANGED <<msdata, rt_idx, rt_idx_keys, mslvl_idx, id, iso_to_do,
                   rt_tolerance, intensity_over_time>>

\* Line 71: self.id = id_df
associate_id(id_df) ==
    /\ BetweenCalls
    /\ id' = id_df
    /\ DropLastCall
    /\ UNCHANGED <<msdata, rt_idx, rt_idx_keys, mslvl_idx, iso_to_do,
                   rt_tolerance, mass_tolerance, intensity_over_time>>

\* Lines 27-31: what the constructor gives every instance.
Constructed ==
    /\ id = <<>>
    /\ iso_to_do = <<>>
    /\ rt_tolerance = DefaultRtTolerance
    /\ mass_tolerance = DefaultMassTolerance

(***************************************************************************)
(* Direct calls of the two pure steps, on inputs drawn from bounded sets   *)
(***************************************************************************)

\* Intensity-time samples [rt, iso, I, mz], with odd and even intensities.
Samples == {<<rt, iso, I, 0>> : rt \in 1..3, iso \in 0..1, I \in {0, 1, 4}}

RECURSIVE SeqsUpTo(_, _)
SeqsUpTo(S, n) ==
    IF n = 0 THEN {<<>>}
    ELSE LET shorter == SeqsUpTo(S, n - 1)
         IN  shorter \cup {Append(q, x) : q \in {r \in shorter : Len(r) = n - 1}, x \in S}

Traces == SeqsUpTo(Samples, MaxTraceLen)

IsoLists == {<<>>, <<0>>, <<0, 1>>, <<1, 0>>, <<2, 1>>}

RetTimes == {70, 100, 131}

MsLevels == {1, 2}

\* The peaks of a scan: for a peptide of 1000 Da and charge 2 the first is in the
\* mass band at both tolerances, the second at 100e-6 only, the third at neither.
ScanPeaks == << <<DaUnits(501) + 16000, 500>>, <<DaUnits(501) + 40000, 30>>, <<DaUnits(502), 7>> >>

Charges == {0, 1, 2}

RtTolerances == {0, DefaultRtTolerance}

\* 100e-6 and 20e-6
MassTolerances == {20, DefaultMassTolerance}

\* The orders in which the keys S can have been inserted into a dict.
KeyOrders(S) == {q \in [1..Cardinality(S) -> S] : \A x \in S : \E k \in DOMAIN q : q[k] = x}

\* The field holds a trace some caller stored in it: integrate_isotope_intensity
\* takes no argument, the field is the only way to hand it a trace.
InitIntegrate ==
    /\ intensity_over_time \in Traces
    /\ Constructed
    /\ msdata = <<>> /\ rt_idx = <<>> /\ rt_idx_keys = <<>> /\ mslvl_idx = <<>>
    /\ pc = "ready" /\ args = <<>> /\ ret = NoCall
    /\ cpu_count = 1
    /\ NoPool

\* A caller runs integrate_isotope_intensity() on the instance as it stands.
CallIntegrate ==
    /\ BetweenCalls
    /\ ret' = integrate_isotope_intensity(intensity_over_time, iso_to_do)
    /\ pc' = "done"
    /\ UNCHANGED <<peaks_vars, args, pool_vars>>

NextIntegrate ==
    \/ \E v \in IsoLists : set_iso_to_do(v)
    \/ CallIntegrate

SpecIntegrate == InitIntegrate /\ [][NextIntegrate]_vars

\* The three dicts handed to the constructor: scans D, in any order of
\* insertion, any retention times and MS levels.
InitTrace ==
    /\ \E D \in SUBSET (1..MaxScan) :
         /\ rt_idx \in [D -> RetTimes]
         /\ rt_idx_keys \in KeyOrders(D)
         /\ mslvl_idx \in [D -> MsLevels]
         /\ msdata = [i \in D |-> ScanPeaks]
    /\ Constructed
    /\ intensity_over_time = <<>>
    /\ pc = "ready" /\ args = <<>> /\ ret = NoCall
    /\ cpu_count = 1
    /\ NoPool

\* A caller runs get_isotopes_from_amrt(peptide_am, peptide_scan, z).
CallTrace ==
    /\ BetweenCalls
    /\ \E s \in 1..(MaxScan + 1), z \in Charges :
         /\ args' = [peptide_am |-> DaUnits(1000), peptide_scan |-> s, z |-> z]
         /\ ret' = get_isotopes_from_amrt(DaUnits(1000), s, z)
    /\ pc' = "done"
    /\ UNCHANGED <<peaks_vars, pool_vars>>

NextTrace ==
    \/ \E v \in {<<>>, <<0, 1>>} : set_iso_to_do(v)
    \/ \E v \in RtTolerances : set_rt_tolerance(v)
    \/ \E v \in MassTolerances : set_mass_tolerance(v)
    \/ CallTrace

SpecTrace == InitTrace /\ [][NextTrace]_vars

(***************************************************************************)
(* Claims about integrate_isotope_intensity (SpecIntegrate)                *)
(***************************************************************************)

HasSample(iot, j) == \E n \in 1..Len(iot) : iot[n][2] = j

OnlyOffset(iot, j) == SelectSeq(iot, LAMBDA s : s[2] = j)

\* The trapezoidal sum of offset j's samples before any floor is applied.
RawArea(iot, j) ==
    LET sel == OnlyOffset(iot, j)
    IN  trapz([k \in 1..Len(sel) |-> sel[k][3]], [k \in 1..Len(sel) |-> sel[k][1]])

\* C3: integrate returns exactly len(iso_to_do) values; the k-th value is the
\* value of offset iso_to_do[k] (it is what integrating that offset's samples
\* alone gives); it is 0 for every offset with no sample in the trace, so an
\* empty trace gives all zeros.
C3_LengthOrderZeroFill ==
    pc = "done" =>
        /\ Len(ret) = Len(iso_to_do)
        /\ \A k \in 1..Len(iso_to_do) :
             /\ ret[k] = integrate_isotope_intensity(
                             OnlyOffset(intensity_over_time, iso_to_do[k]),
                             <<iso_to_do[k]>>)[1]
             /\ ~HasSample(intensity_over_time, iso_to_do[k]) => ret[k] = 0
        /\ intensity_over_time = <<>> => \A k \in 1..Len(ret) : ret[k] = 0

\* C3 witness: two offsets requested, the first without any sample in a
\* non-empty trace and zero-filled, the second with a positive area.
C3_Witness ==
    /\ pc = "done"
    /\ Len(iso_to_do) = 2
    /\ ~HasSample(intensity_over_time, iso_to_do[1])
    /\ intensity_over_time # <<>>
    /\ ret[1] = 0
    /\ ret[2] > 0

\* C4: every value integrate returns is >= 0, also when the samples' retention
\* times descend and the raw trapezoidal sum is negative.
C4_NonNegative ==
    pc = "done" => \A k \in 1..Len(ret) : ret[k] >= 0

\* C4 witness: a requested offset whose raw trapezoidal sum is negative.
C4_Witness ==
    /\ pc = "done"
    /\ \E k \in 1..Len(iso_to_do) :
         /\ RawArea(intensity_over_time, iso_to_do[k]) < 0
         /\ ret[k] = 0

(***************************************************************************)
(* Claims about get_isotopes_from_amrt (SpecTrace)                         *)
(***************************************************************************)

\* The call got past the comprehension of lines 150-151.
NearbyComputed == pc = "done" /\ ret.line > 151

NearbyIds == {ret.nearby_scans[k][1] : k \in 1..Len(ret.nearby_scans)}

\* The scans the claims call nearby: MS level 1, retention time within
\* rt_tolerance of the reference, boundary included.
WindowScans ==
    LET ref == rt_idx[args.peptide_scan]
    IN  {i \in DOMAIN rt_idx : /\ mslvl_idx[i] = 1
                               /\ rt_idx[i] >= ref - rt_tolerance
                               /\ rt_idx[i] <= ref + rt_tolerance}

\* C7: when elution_scan is not a key of rt_idx (and the charge is valid), the
\* call fails with a lookup-kind error, whatever the index holds.
C7_MissingScanIsLookupError ==
    (pc = "done" /\ args.peptide_scan \notin DOMAIN rt_idx /\ args.z > 0) =>
        /\ ret.kind = "raise"
        /\ ret.exc \in {"LookupError", "KeyError", "IndexError"}

\* C8: for a valid identification (elution_scan indexed, charge > 0) the call
\* returns a trace with one sample per (nearby scan, offset) pair.
C8_OneSamplePerPair ==
    (pc = "done" /\ args.peptide_scan \in DOMAIN rt_idx /\ args.z > 0) =>
        /\ ret.kind = "return"
        /\ Len(ret.value) = Cardinality(WindowScans) * Len(iso_to_do)
        /\ \A i \in WindowScans : \A k \in 1..Len(iso_to_do) :
             \E n \in 1..Len(ret.value) :
                 ret.value[n][1] = rt_idx[i] /\ ret.value[n][2] = iso_to_do[k]

\* C9: the nearby scans are exactly the MS1 scans within rt_tolerance of the
\* reference retention time: a difference of exactly rt_tolerance is in, any
\* larger difference is out, any other MS level is out.
C9_WindowSelection ==
    (NearbyComputed /\ args.peptide_scan \in DOMAIN rt_idx) =>
        /\ NearbyIds = WindowScans
        /\ Len(ret.nearby_scans) = Cardinality(WindowScans)
        /\ \A k \in 1..Len(ret.nearby_scans) :
             ret.nearby_scans[k][2] = rt_idx[ret.nearby_scans[k][1]]

\* C9 witness: with the default tolerance, an MS1 scan exactly rt_tolerance
\* away that is selected, inserted into the index before a scan of another
\* level inside the window that is not.
C9_Witness ==
    /\ NearbyComputed
    /\ args.peptide_scan \in DOMAIN rt_idx
    /\ rt_tolerance = DefaultRtTolerance
    /\ \E i \in NearbyIds :
         /\ abs(rt_idx[i] - rt_idx[args.peptide_scan]) = rt_tolerance
         /\ rt_idx_keys[1] = i
         /\ i > rt_idx_keys[2]
    /\ \E i \in DOMAIN rt_idx \ NearbyIds :
         mslvl_idx[i] # 1 /\ abs(rt_idx[i] - rt_idx[args.peptide_scan]) <= rt_tolerance

(***************************************************************************)
(* get_isotopes_from_amrt_wrapper                                          *)
(***************************************************************************)

\* self.id.loc[index, column]: the table has the default index 0..n-1.
id_loc(index, column) == id[index + 1][column]

RowReturned(row) == [kind |-> "return", value |-> row, exc |-> "none", line |-> 124]

RowRaised(e, ln) == [kind |-> "raise", value |-> <<>>, exc |-> e, line |-> ln]

\* Lines 109-124 with the store of line 115 made only for a non-empty trace.
get_isotopes_from_amrt_wrapper_KeepStale(self_iot, index) ==
    LET t == get_isotopes_from_amrt(id_loc(index, "peptide_mass"),
                                    id_loc(index, "scan"),
                                    id_loc(index, "charge"))
    IN  IF t.kind = "raise"
        THEN [intensity_over_time |-> self_iot, out |-> RowRaised(t.exc, t.line)]
        ELSE LET iot == IF t.value # <<>> THEN t.value ELSE self_iot
             IN  [intensity_over_time |-> iot,
                  out |-> RowReturned(<<index, id_loc(index, "pep_id")>>
                                      \o integrate_isotope_intensity(iot, iso_to_do))]

\* Lines 109-124 on an instance whose field holds self_iot: the field afterwards
\* and what the call returned or raised.  The table's columns hold numbers, on
\* which float() and int() change nothing.
get_isotopes_from_amrt_wrapper(self_iot, index) ==
    LET peptide_mass == id_loc(index, "peptide_mass")
        scan_number  == id_loc(index, "scan")
        charge       == id_loc(index, "charge")
        t            == get_isotopes_from_amrt(peptide_mass, scan_number, charge)
    IN  IF t.kind = "raise"
        THEN [intensity_over_time |-> self_iot, out |-> RowRaised(t.exc, t.line)]
        ELSE LET iot == t.value
             IN  [intensity_over_time |-> iot,
                  out |-> RowReturned(<<index, id_loc(index, "pep_id")>>
                                      \o integrate_isotope_intensity(iot, iso_to_do))]

(***************************************************************************)
(* get_isotopes_from_amrt_multiwrapper and the pool it drives              *)
(***************************************************************************)

\* chunk_size = max(chunk_size, 250)
effective_chunk_size(chunk_size) == max(chunk_size, ChunkFloor)

\* p.imap(..., loop_count, chunksize): range(n) cut into consecutive chunks,
\* chunk i holding the row indices i*size .. min((i+1)*size, n) - 1.
get_tasks(n, size) ==
    [c \in 1..((n + size - 1) \div size) |->
        [i     |-> c - 1,
         batch |-> [k \in 1..((IF c * size < n THEN c * size ELSE n) - (c - 1) * size)
                        |-> (c - 1) * size + k - 1]]]

\* What a worker does with one chunk: list(map(wrapper, batch)) on its own copy
\* of the instance, row after row; the first row that raises fails the chunk.
\* Rows lo..hi of the batch are run left half first, the right half starting
\* from the field the left half leaves, which is the order of the loop.
RECURSIVE map_rows(_, _, _, _)
map_rows(self_iot, batch, lo, hi) ==
    IF lo > hi
    THEN [ok |-> TRUE, rows |-> <<>>, exc |-> "none", line |-> 0,
          intensity_over_time |-> self_iot]
    ELSE IF lo = hi
    THEN LET r == get_isotopes_from_amrt_wrapper(self_iot, batch[lo])
         IN  IF r.out.kind = "raise"
             THEN [ok |-> FALSE, rows |-> <<>>, exc |-> r.out.exc, line |-> r.out.line,
                   intensity_over_time |-> r.intensity_over_time]
             ELSE [ok |-> TRUE, rows |-> <<r.out.value>>, exc |-> "none", line |-> 0,
                   intensity_over_time |-> r.intensity_over_time]
    ELSE LET mid   == (lo + hi) \div 2
             left  == map_rows(self_iot, batch, lo, mid)
             right == map_rows(left.intensity_over_time, batch, mid + 1, hi)
         IN  IF ~left.ok THEN left
             ELSE IF ~right.ok THEN right
             ELSE [right EXCEPT !.rows = left.rows \o right.rows]

mapstar(self_iot, batch) == map_rows(self_iot, batch, 1, Len(batch))

\* The chunk as the parent receives it.
chunk_result(i, m) == [i |-> i, ok |-> m.ok, rows |-> m.rows, exc |-> m.exc, line |-> m.line]

\* The loop of the iterator's _set: chunks that arrived early follow in order.
RECURSIVE drain_unsorted(_, _, _)
drain_unsorted(index, items, unsorted) ==
    IF \E o \in unsorted : o.i = index
    THEN LET o == CHOOSE o \in unsorted : o.i = index
         IN  drain_unsorted(index + 1, Append(items, o), unsorted \ {o})
    ELSE [index |-> index, items |-> items, unsorted |-> unsorted]

\* The result iterator of imap taking chunk obj: in turn it is queued, together
\* with the early arrivals that follow it; out of turn it is set aside.
iterator_set(obj) ==
    IF it_index = obj.i
    THEN drain_unsorted(it_index + 1, Append(it_items, obj), it_unsorted)
    ELSE [index |-> it_index, items |-> it_items, unsorted |-> it_unsorted \cup {obj}]

BatchRaised(e, ln) == [kind |-> "raise", value |-> <<>>, exc |-> e, line |-> ln]

BatchReturned(rows) == [kind |-> "return", value |-> rows, exc |-> "none", line |-> 98]

Idle == [state |-> "idle", task |-> <<>>, intensity_over_time |-> <<>>]

Terminated(w) == [w EXCEPT !.state = "terminated"]

ChunkSizes == {0, 50, ChunkFloor + 1}

\* Lines 84-96 up to the first next() of list(): the two assertions, the pool,
\* the chunks handed to it, and total=max(loop_count).
BatchCall ==
    /\ BetweenCalls
    /\ \E num_thread \in 0..MaxWorkers, chunk_size \in ChunkSizes :
         /\ args' = [num_thread |-> num_thread, chunk_size |-> chunk_size]
         /\ IF ~(num_thread >= cpu_count - 1)
            THEN /\ ret' = BatchRaised("AssertionError", 84)
                 /\ pc' = "done"
                 /\ taskqueue' = <<>>
                 /\ worker' = <<>>
            ELSE IF ~(chunk_size > 0)
            THEN /\ ret' = BatchRaised("AssertionError", 86)
                 /\ pc' = "done"
                 /\ taskqueue' = <<>>
                 /\ worker' = <<>>
            ELSE IF num_thread < 1
            THEN /\ ret' = BatchRaised("ValueError", 92)
                 /\ pc' = "done"
                 /\ taskqueue' = <<>>
                 /\ worker' = <<>>
            ELSE IF Len(id) = 0
            THEN /\ ret' = BatchRaised("ValueError", 96)
                 /\ pc' = "done"
                 /\ taskqueue' = <<>>
                 /\ worker' = [w \in 1..num_thread |-> Terminated(Idle)]
            ELSE /\ ret' = NoCall
                 /\ pc' = "collecting"
                 /\ taskqueue' = get_tasks(Len(id), effective_chunk_size(chunk_size))
                 /\ worker' = [w \in 1..num_thread |-> Idle]
    /\ outqueue' = <<>>
    /\ it_index' = 0 /\ it_items' = <<>> /\ it_unsorted' = {}
    /\ result' = <<>>
    /\ UNCHANGED <<peaks_vars, cpu_count>>

\* The pool's processes and threads run from Pool(...) until the with block is
\* left: while list() collects, and while an exception next() raised unwinds.
PoolRuns == pc \in {"collecting", "raising"}

\* An idle worker takes the next chunk; the task carries a pickled copy of the
\* instance, so the worker starts the chunk with the parent's fields.
WorkerTake(w) ==
    /\ PoolRuns
    /\ w \in DOMAIN worker
    /\ worker[w].state = "idle"
    /\ taskqueue # <<>>
    /\ worker' = [worker EXCEPT ![w] = [state |-> "busy", task |-> Head(taskqueue),
                                        intensity_over_time |-> intensity_over_time]]
    /\ taskqueue' = Tail(taskqueue)
    /\ UNCHANGED <<peaks_vars, pc, args, ret, cpu_count, outqueue, it_index, it_items,
                   it_unsorted, result>>

\* A worker finishes its chunk, puts what it got on the pool's outqueue and is
\* free for the next chunk.
WorkerFinish(w) ==
    /\ PoolRuns
    /\ w \in DOMAIN worker
    /\ worker[w].state = "busy"
    /\ LET m == mapstar(worker[w].intensity_over_time, worker[w].task.batch)
       IN  /\ worker' = [worker EXCEPT ![w] = [state |-> "idle", task |-> <<>>,
                              intensity_over_time |-> m.intensity_over_time]]
           /\ outqueue' = Append(outqueue, chunk_result(worker[w].task.i, m))
    /\ UNCHANGED <<peaks_vars, pc, args, ret, cpu_count, taskqueue, it_index,
                   it_items, it_unsorted, result>>

\* The parent's result-handler thread takes a chunk off the outqueue and hands
\* it to the result iterator.
HandleResult ==
    /\ PoolRuns
    /\ outqueue # <<>>
    /\ LET it == iterator_set(Head(outqueue))
       IN  /\ it_index' = it.index
           /\ it_items' = it.items
           /\ it_unsorted' = it.unsorted
    /\ outqueue' = Tail(outqueue)
    /\ UNCHANGED <<peaks_vars, pc, args, ret, cpu_count, taskqueue, worker, result>>

\* list() takes the next chunk in chunk order: its rows extend the list, or
\* next() raises its exception again in the parent.  The pool goes on running
\* until the exception has left the with block.
CollectNext ==
    /\ pc = "collecting"
    /\ it_items # <<>>
    /\ it_items' = Tail(it_items)
    /\ IF Head(it_items).ok
       THEN /\ result' = result \o Head(it_items).rows
            /\ UNCHANGED <<pc, ret>>
       ELSE /\ ret' = BatchRaised(Head(it_items).exc, Head(it_items).line)
            /\ pc' = "raising"
            /\ UNCHANGED result
    /\ UNCHANGED <<peaks_vars, args, cpu_count, taskqueue, outqueue, worker,
                   it_index, it_unsorted>>

\* The exception leaves the with block of line 92: Pool.__exit__ terminates the
\* pool, and the call ends with the exception.
PoolExit ==
    /\ pc = "raising"
    /\ pc' = "done"
    /\ worker' = [w \in DOMAIN worker |-> Terminated(worker[w])]
    /\ taskqueue' = <<>>
    /\ outqueue' = <<>>
    /\ UNCHANGED <<peaks_vars, args, ret, cpu_count, it_index, it_items,
                   it_unsorted, result>>

\* Every chunk was handed out: list() ends and line 98 returns it.
BatchReturn ==
    /\ pc = "collecting"
    /\ it_items = <<>>
    /\ it_index = Len(get_tasks(Len(id), effective_chunk_size(args.chunk_size)))
    /\ ret' = BatchReturned(result)
    /\ pc' = "done"
    /\ worker' = [w \in DOMAIN worker |-> Terminated(worker[w])]
    /\ UNCHANGED <<peaks_vars, args, cpu_count, taskqueue, outqueue, it_index,
                   it_items, it_unsorted, result>>

\* A caller runs get_isotopes_from_amrt_wrapper(index) on its own instance: line
\* 115 stores the row's trace in the instance's field.  An index that is no row
\* of the table fails in the first self.id.loc of line 109.
CallWrapper ==
    /\ BetweenCalls
    /\ \E index \in 0..Len(id) :
         /\ args' = [index |-> index]
         /\ IF index >= Len(id)
            THEN /\ ret' = RowRaised("KeyError", 109)
                 /\ UNCHANGED intensity_over_time
            ELSE LET r == get_isotopes_from_amrt_wrapper(intensity_over_time, index)
                 IN  /\ ret' = r.out
                     /\ intensity_over_time' = r.intensity_over_time
    /\ pc' = "row_done"
    /\ taskqueue' = <<>> /\ outqueue' = <<>>
    /\ worker' = <<>>
    /\ it_index' = 0 /\ it_items' = <<>> /\ it_unsorted' = {}
    /\ result' = <<>>
    /\ UNCHANGED <<msdata, rt_idx, rt_idx_keys, mslvl_idx, id, iso_to_do,
                   rt_tolerance, mass_tolerance, cpu_count>>

\* Identification rows: scan 1 has a nearby MS1 scan, scan 2 has none, scan 4
\* is not indexed; charge 0 is the degenerate charge.
RowKinds == {[scan |-> s, charge |-> 2] : s \in {1, 2, 4}} \cup {[scan |-> 2, charge |-> 0]}

MakeRow(kind, index) ==
    [peptide_mass |-> DaUnits(1000), scan |-> kind.scan, charge |-> kind.charge,
     pep_id |-> 1000 + index]

\* Tables of up to MaxRows rows of any kinds.
SmallTables ==
    {[k \in 1..Len(q) |-> MakeRow(q[k], k - 1)] : q \in SeqsUpTo(RowKinds, MaxRows)}

\* Tables of ChunkFloor + MaxExtraRows rows, which make two chunks: one kind of
\* row up to row ChunkFloor and one kind after, each with or without a nearby scan.
LargeTables ==
    {[k \in 1..(ChunkFloor + MaxExtraRows) |->
          MakeRow(IF k <= ChunkFloor THEN a ELSE b, k - 1)] :
         a \in {r \in RowKinds : r.scan \in {1, 2} /\ r.charge > 0},
         b \in {r \in RowKinds : r.scan \in {1, 2} /\ r.charge > 0}}

\* A trace a caller left in the field before the batch: integrate_isotope_intensity
\* takes no argument, the field is the only way to hand it a trace.
StaleTrace == << <<1, 0, 4, 0>>, <<3, 0, 4, 0>>, <<2, 1, 4, 0>>, <<4, 1, 4, 0>> >>

\* Scans 1 and 2 are MS2 scans at 70 and 131, scan 3 an MS1 scan at 100: with the
\* default tolerance scan 3 is nearby for scan 1 and not for scan 2.
IndexedScans ==
    /\ rt_idx = <<70, 131, 100>>
    /\ rt_idx_keys = <<1, 2, 3>>
    /\ mslvl_idx = <<2, 2, 1>>
    /\ msdata = [i \in 1..3 |-> ScanPeaks]

\* Machines: one CPU, where line 84 passes every worker count, and MaxCpu CPUs,
\* where it passes MaxCpu - 1 workers and more.
CpuCounts == {1, MaxCpu}

\* The instance after construction, on an empty or a filled scan index, and
\* the machine it runs on.  The field may hold a trace some caller stored in it.
Init ==
    /\ \/ rt_idx = <<>> /\ rt_idx_keys = <<>> /\ mslvl_idx = <<>> /\ msdata = <<>>
       \/ IndexedScans
    /\ Constructed
    /\ intensity_over_time \in {<<>>, StaleTrace}
    /\ cpu_count \in CpuCounts
    /\ pc = "ready" /\ args = <<>> /\ ret = NoCall
    /\ NoPool

\* The two-chunk tables are run in one setting: the filled index, both offsets,
\* the default tolerances, a machine where every worker count passes line 84.
LargeSetting ==
    /\ rt_idx # <<>>
    /\ iso_to_do = <<0, 1>>
    /\ rt_tolerance = DefaultRtTolerance
    /\ mass_tolerance = DefaultMassTolerance
    /\ cpu_count = 1

SmallTable == Len(id) <= MaxRows

Next ==
    \/ SmallTable /\ \E v \in {<<>>, <<0, 1>>} : set_iso_to_do(v)
    \/ SmallTable /\ \E v \in RtTolerances : set_rt_tolerance(v)
    \/ SmallTable /\ \E v \in MassTolerances : set_mass_tolerance(v)
    \/ \E t \in SmallTables : associate_id(t)
    \/ LargeSetting /\ \E t \in LargeTables : associate_id(t)
    \/ SmallTable /\ CallWrapper
    \/ BatchCall
    \/ \E w \in 1..MaxWorkers : WorkerTake(w)
    \/ \E w \in 1..MaxWorkers : WorkerFinish(w)
    \/ HandleResult
    \/ CollectNext
    \/ PoolExit
    \/ BatchReturn

Spec == Init /\ [][Next]_vars

(***************************************************************************)
(* Claims about get_isotopes_from_amrt_multiwrapper (Spec)                 *)
(***************************************************************************)

\* The trace of row index on its own, whatever any instance's field holds.
RowTrace(index) ==
    get_isotopes_from_amrt(id_loc(index, "peptide_mass"), id_loc(index, "scan"),
                           id_loc(index, "charge"))

RowFails(index) == RowTrace(index).kind = "raise"

\* The result row of row index computed from that row alone.
RefRow(index) ==
    <<index, id_loc(index, "pep_id")>>
        \o integrate_isotope_intensity(RowTrace(index).value, iso_to_do)

FailingRows == {i \in 0..(Len(id) - 1) : RowFails(i)}

FirstFailingRow == CHOOSE i \in FailingRows : \A j \in FailingRows : i <= j

\* The last call the caller made is the batch.
BatchCalled == pc \in {"collecting", "raising", "done"}

\* The call meets the preconditions of the specification and passes lines 84-92.
Admissible ==
    /\ BatchCalled
    /\ args.num_thread <= cpu_count - 1
    /\ args.num_thread >= cpu_count - 1
    /\ args.num_thread >= 1
    /\ args.chunk_size > 0

RowsInOrder(rows) ==
    /\ Len(rows) = Len(id)
    /\ \A i \in 0..(Len(id) - 1) :
         rows[i + 1][1] = i /\ rows[i + 1][2] = id_loc(i, "pep_id")

\* Every row's scan is indexed and its charge is positive.
AllRowsValid ==
    \A i \in 0..(Len(id) - 1) :
        id_loc(i, "scan") \in DOMAIN rt_idx /\ id_loc(i, "charge") > 0

\* C1: for every table of n >= 1 rows and every order in which the workers
\* finish, the batch returns exactly n result rows, row i at position i, tagged
\* i and carrying row i's pep_id.  Stated here on the tables that ask least of
\* the batch, those whose rows are all valid identifications.
C1_ReturnsAllRowsInOrder ==
    (pc = "done" /\ Admissible /\ Len(id) >= 1 /\ AllRowsValid) =>
        /\ ret.kind = "return"
        /\ RowsInOrder(ret.value)

\* C2: when a row fails inside a worker the batch does not abort: it returns,
\* with the normal result row of every other row.  Stated on the tables that
\* hold both a failing row and a row that does not fail.
C2_RowIsolation ==
    (pc = "done" /\ Admissible /\ FailingRows # {}
        /\ FailingRows # 0..(Len(id) - 1)) =>
        /\ ret.kind = "return"
        /\ Len(ret.value) = Len(id)
        /\ \A i \in 0..(Len(id) - 1) : ~RowFails(i) => ret.value[i + 1] = RefRow(i)

\* C5: the result row of row i is the same for every worker count, chunking
\* and order of completion, and is not influenced by a trace an earlier row or
\* call left in intensity_over_time: every row that reaches the parent is the
\* row computed from row i alone, and a failing batch fails with the
\* exception of its first failing row.
C5_Determinism ==
    /\ \A o \in it_unsorted \cup {it_items[n] : n \in 1..Len(it_items)}
                          \cup {outqueue[n] : n \in 1..Len(outqueue)} :
         \A k \in 1..Len(o.rows) :
             o.rows[k] = RefRow(o.i * effective_chunk_size(args.chunk_size) + k - 1)
    /\ \A k \in 1..Len(result) : result[k] = RefRow(k - 1)
    /\ (pc = "done" /\ ret.kind = "return") =>
           ret.value = [k \in 1..Len(id) |-> RefRow(k - 1)]
    /\ (pc \in {"raising", "done"} /\ ret.kind = "raise" /\ ret.line > 96) =>
           /\ FailingRows # {}
           /\ ret.exc = RowTrace(FirstFailingRow).exc
           /\ ret.line = RowTrace(FirstFailingRow).line

\* C5 witness: two workers, the instance's field holding a trace, the second
\* chunk back before the first, which a worker is still running row after row.
C5_Witness ==
    /\ pc = "collecting"
    /\ intensity_over_time # <<>>
    /\ \E o \in it_unsorted : o.ok /\ Len(o.rows) >= 2
    /\ \E w \in DOMAIN worker :
         /\ worker[w].state = "busy"
         /\ worker[w].task.i = 0
         /\ Len(worker[w].task.batch) >= 2

\* C6: the call goes on to dispatch whenever num_workers <= parallelism - 1 and
\* chunk_size > 0 (it is not turned down by the checks of lines 84-86), and it
\* is turned down by those checks, with no pool and nothing dispatched, whenever
\* num_workers > parallelism - 1.  Stated on the tables that hold a row.
C6_WorkerCountPrecondition ==
    (BatchCalled /\ Len(id) >= 1) =>
        /\ args.num_thread > cpu_count - 1 =>
               /\ pc = "done"
               /\ ret.kind = "raise" /\ ret.line \in {84, 86}
               /\ worker = <<>> /\ taskqueue = <<>>
        /\ (args.num_thread >= 1 /\ args.num_thread <= cpu_count - 1
               /\ args.chunk_size > 0) =>
               ~(ret.kind = "raise" /\ ret.line \in {84, 86})

\* C10: for a table of zero rows and arguments that pass the preconditions,
\* the batch returns the empty sequence of result rows.
C10_EmptyBatchReturnsEmpty ==
    (pc = "done" /\ Admissible /\ Len(id) = 0) =>
        /\ ret.kind = "return"
        /\ ret.value = <<>>

====
